---- MODULE Spec2Model ----
(***************************************************************************)
(* pest-typed: the typed PEG matchers of predefined_node.rs (matchers that *)
(* return Result<_, Tracker>, ATOMIC as a const generic, IGNORED as a type *)
(* parameter), of predefined_node/mod.rs and typed_node.rs (matchers that  *)
(* return Option and report to a &mut Tracker).                            *)
(*                                                                         *)
(* A matcher type is a node of the table Node; try_parse_with is the       *)
(* recursive operator Eval over that table.  Position, Stack and Tracker   *)
(* follow their documented contract.                                       *)
(***************************************************************************)
EXTENDS Integers, Sequences, FiniteSets, TLC

VARIABLES input,   \* the input buffer, a sequence of characters
          pos,     \* offset of the current Position in input
          stack,   \* the Stack<Span>: [elems, snapshots]
          last,    \* the last call: matcher, state at entry, result
          calls    \* number of calls made on this input

vars == <<input, pos, stack, last, calls>>

\* Longest input.
MaxLen == 4
\* Most matcher calls made one after the other on one input.
MaxCalls == 3

MaxCapLen == 4
\* Longest input that holds WHITESPACE and COMMENT text.
MaxIgnLen == 5
\* How far from the iteration cap of Rep the long runs are.
MaxOver == 1

Alphabet == {"a", "b", "x", " "}

RECURSIVE Strings(_, _)
Strings(A, n) ==
    IF n = 0 THEN {<<>>}
    ELSE LET shorter == Strings(A, n - 1)
         IN shorter \cup {Append(w, c) : w \in {v \in shorter : Len(v) = n - 1}, c \in A}

Inputs == Strings(Alphabet, MaxLen)

RECURSIVE Flatten(_)
Flatten(ss) == IF ss = <<>> THEN <<>> ELSE Head(ss) \o Flatten(Tail(ss))

Reverse(s) == [i \in 1..Len(s) |-> s[Len(s) + 1 - i]]

Max(x, y) == IF x >= y THEN x ELSE y

(***************************************************************************)
(* Position and Span                                                       *)
(***************************************************************************)
Code(c) ==
    CASE c = "\t" -> 9
      [] c = " " -> 32
      [] c = "_" -> 95
      [] c = "a" -> 97
      [] c = "b" -> 98
      [] c = "c" -> 99
      [] c = "d" -> 100
      [] c = "x" -> 120
      [] c = "y" -> 121

\* Position::match_string: true and advance iff the rest of the input starts with s.
MatchString(p, s) ==
    /\ p + Len(s) <= Len(input)
    /\ SubSeq(input, p + 1, p + Len(s)) = s

\* Position::match_range: one character within [min, max].
MatchRange(p, min, max) ==
    /\ p < Len(input)
    /\ Code(min) <= Code(input[p + 1])
    /\ Code(input[p + 1]) <= Code(max)

AtEnd(p) == p = Len(input)

\* start.span(&end)
Span(s, e) == <<s, e>>
\* Span::as_str
AsStr(span) == SubSeq(input, span[1] + 1, span[2])

(***************************************************************************)
(* Stack<Span> with snapshots                                              *)
(***************************************************************************)
StackNew == [elems |-> <<>>, snapshots |-> <<>>]

StackLen(st) == Len(st.elems)

StackPush(st, span) == [st EXCEPT !.elems = Append(@, span)]

\* the stack after pop(); pop() returns None on an empty stack
StackPop(st) ==
    IF st.elems = <<>> THEN st
    ELSE [st EXCEPT !.elems = SubSeq(@, 1, Len(@) - 1)]

StackPeek(st) == st.elems[Len(st.elems)]

StackSnapshot(st) == [st EXCEPT !.snapshots = Append(@, Len(st.elems))]

StackClearSnapshot(st) ==
    IF st.snapshots = <<>> THEN st
    ELSE [st EXCEPT !.snapshots = SubSeq(@, 1, Len(@) - 1)]

\* pops the most recent marker and truncates the stack to that length
StackRestore(st) ==
    IF st.snapshots = <<>> THEN [st EXCEPT !.elems = <<>>]
    ELSE LET m == st.snapshots[Len(st.snapshots)]
         IN [elems |-> IF Len(st.elems) > m THEN SubSeq(st.elems, 1, m) ELSE st.elems,
             snapshots |-> SubSeq(st.snapshots, 1, Len(st.snapshots) - 1)]

\* parser_state::constrain_idxs: Python-style signed indices resolved against len;
\* <<>> is None, <<lo, hi>> is Some(lo..hi).
NormalizeIndex(i, len) ==
    IF i > len THEN <<>>
    ELSE IF i >= 0 THEN <<i>>
    ELSE IF len + i >= 0 THEN <<len + i>>
    ELSE <<>>

ConstrainIdxs(start, end, len) ==
    LET s == NormalizeIndex(start, len)
        e == IF end = <<>> THEN <<len>> ELSE NormalizeIndex(end[1], len)
    IN IF s = <<>> \/ e = <<>> THEN <<>> ELSE <<s[1], e[1]>>

(***************************************************************************)
(* Tracker                                                                 *)
(***************************************************************************)
NoTracker ==
    [kind |-> "none", pos |-> 0, positives |-> {}, negatives |-> {},
     start |-> 0, end |-> <<>>, rules |-> <<>>]

\* Tracker::new(input)
TrackerNew(p) == [NoTracker EXCEPT !.kind = "Attempts", !.pos = p]
\* Tracker::new_positive(rule, input)
TrackerNewPositive(rule, p) == [TrackerNew(p) EXCEPT !.positives = {rule}]
\* Tracker::new_negative(rule, input)
TrackerNewNegative(rule, p) == [TrackerNew(p) EXCEPT !.negatives = {rule}]
\* Tracker::EmptyStack(input)
TrackerEmptyStack(p) == [NoTracker EXCEPT !.kind = "EmptyStack", !.pos = p]
\* Tracker::SliceOutOfBound(start, end, input)
TrackerSliceOutOfBound(start, end, p) ==
    [NoTracker EXCEPT !.kind = "SliceOutOfBound", !.pos = p, !.start = start, !.end = end]
\* Tracker::RepeatTooManyTimes(input)
TrackerRepeatTooManyTimes(p) == [NoTracker EXCEPT !.kind = "RepeatTooManyTimes", !.pos = p]

\* Tracker::merge: the further offset wins; at equal offsets the labels are united.
TrackerMerge(first, second) ==
    IF first.pos > second.pos THEN first
    ELSE IF second.pos > first.pos THEN second
    ELSE [first EXCEPT !.positives = @ \cup second.positives,
                       !.negatives = @ \cup second.negatives]

\* Tracker::nest(rule, input): the failure is put under the rule's identity.
TrackerNest(t, rule, p) == [t EXCEPT !.rules = <<rule>> \o @]

(***************************************************************************)
(* Matcher types.  A node is one instantiation of a generic matcher:       *)
(* op the matcher, s its string constant, a and b its type arguments,      *)
(* ign its IGNORED argument, start and end its const generics, rule its    *)
(* RuleWrapper.                                                            *)
(***************************************************************************)
N(op) ==
    [op |-> op, s |-> <<>>, a |-> "", b |-> "", ign |-> "", start |-> 0, end |-> <<>>,
     rule |-> ""]

Lit(s) == [N("Str") EXCEPT !.s = s]
Un(op, a) == [N(op) EXCEPT !.a = a]
Bin(op, a, b) == [N(op) EXCEPT !.a = a, !.b = b]
SeqOf(a, b) == [N("Seq") EXCEPT !.a = a, !.b = b, !.ign = "Ign"]
RepOf(a) == [N("Rep") EXCEPT !.a = a, !.ign = "Ign"]
Slice1(start) == [N("PeekSlice1") EXCEPT !.start = start]
Slice2(start, end) == [N("PeekSlice2") EXCEPT !.start = start, !.end = <<end>>]
Wrap(op, rule, a) == [N(op) EXCEPT !.a = a, !.rule = rule, !.ign = "Ign"]

Node ==
    "a" :> Lit(<<"a">>) @@ "b" :> Lit(<<"b">>) @@ "x" :> Lit(<<"x">>) @@
    "ab" :> Lit(<<"a", "b">>) @@
    "abc" :> Lit(<<"a", "b", "c">>) @@ "abd" :> Lit(<<"a", "b", "d">>) @@
    "' '" :> [N("CharRange") EXCEPT !.s = <<" ", " ">>] @@
    "'\\t'" :> [N("CharRange") EXCEPT !.s = <<"\t", "\t">>] @@
    "WHITESPACE" :> Wrap("AtomicRule", "WHITESPACE", "' '") @@
    "COMMENT" :> Wrap("AtomicRule", "COMMENT", "'\\t'") @@
    "Ign" :> Bin("Ign", "COMMENT", "WHITESPACE") @@
    "AlwaysFail" :> N("AlwaysFail") @@
    "EOI" :> N("EOI") @@
    "PEEK" :> N("PEEK") @@ "PEEK_ALL" :> N("PEEK_ALL") @@
    "POP" :> N("POP") @@ "POP_ALL" :> N("POP_ALL") @@ "DROP" :> N("DROP") @@
    "Push(a)" :> Un("Push", "a") @@ "Push(b)" :> Un("Push", "b") @@
    "Push(x)" :> Un("Push", "x") @@
    "Push(ab)" :> Un("Push", "ab") @@
    "PeekSlice1<0>" :> Slice1(0) @@ "PeekSlice1<-1>" :> Slice1(-1) @@
    "PeekSlice1<1>" :> Slice1(1) @@ "PeekSlice1<-3>" :> Slice1(-3) @@
    "PeekSlice2<0,1>" :> Slice2(0, 1) @@ "PeekSlice2<-2,-1>" :> Slice2(-2, -1) @@
    "PeekSlice2<1,0>" :> Slice2(1, 0) @@ "PeekSlice2<0,3>" :> Slice2(0, 3) @@
    "Seq(a,b)" :> SeqOf("a", "b") @@
    "Seq(Push(a),b)" :> SeqOf("Push(a)", "b") @@
    "(Push(a),b)" :> Bin("Tuple", "Push(a)", "b") @@
    "(POP,b)" :> Bin("Tuple", "POP", "b") @@
    "(DROP,b)" :> Bin("Tuple", "DROP", "b") @@
    "(Positive(Push(a)),PEEK)" :> Bin("Tuple", "Positive(Push(a))", "PEEK") @@
    "(Push(a),PEEK)" :> Bin("Tuple", "Push(a)", "PEEK") @@
    "Choice(a,ab)" :> Bin("Choice", "a", "ab") @@
    "Choice(abc,abd)" :> Bin("Choice", "abc", "abd") @@
    "Choice(Push(a),PEEK)" :> Bin("Choice", "Push(a)", "PEEK") @@
    "Choice(Seq(Push(a),b),Push(x))" :> Bin("Choice", "Seq(Push(a),b)", "Push(x)") @@
    "Opt(x)" :> Un("Opt", "x") @@
    "Opt(Seq(Push(a),b))" :> Un("Opt", "Seq(Push(a),b)") @@
    "Opt(POP)" :> Un("Opt", "POP") @@
    "Option(x)" :> Un("Option", "x") @@
    "Option((Push(a),b))" :> Un("Option", "(Push(a),b)") @@
    "Option((POP,b))" :> Un("Option", "(POP,b)") @@
    "Option(Push(a))" :> Un("Option", "Push(a)") @@
    "Rep(a)" :> RepOf("a") @@
    "Rep(Opt(x))" :> RepOf("Opt(x)") @@
    "y" :> Lit(<<"y">>) @@
    "Positive(y)" :> Un("Positive", "y") @@
    "Choice(x,Positive(y))" :> Bin("Choice", "x", "Positive(y)") @@
    "Rep(Choice(x,Positive(y)))" :> RepOf("Choice(x,Positive(y))") @@
    "Positive(x)" :> Un("Positive", "x") @@
    "Rep(Positive(x))" :> RepOf("Positive(x)") @@
    "Positive(a)" :> Un("Positive", "a") @@
    "Positive(ab)" :> Un("Positive", "ab") @@
    "Positive(Push(a))" :> Un("Positive", "Push(a)") @@
    "Positive(POP)" :> Un("Positive", "POP") @@
    "Positive(DROP)" :> Un("Positive", "DROP") @@
    "Positive(POP_ALL)" :> Un("Positive", "POP_ALL") @@
    "Positive((DROP,b))" :> Un("Positive", "(DROP,b)") @@
    "Negative(a)" :> Un("Negative", "a") @@
    "Negative(ab)" :> Un("Negative", "ab") @@
    "Negative(Push(a))" :> Un("Negative", "Push(a)") @@
    "Negative(POP)" :> Un("Negative", "POP") @@
    "Negative(DROP)" :> Un("Negative", "DROP") @@
    "Negative(POP_ALL)" :> Un("Negative", "POP_ALL") @@
    "Negative((DROP,b))" :> Un("Negative", "(DROP,b)") @@
    "Restorable(Seq(Push(a),b))" :> Un("Restorable", "Seq(Push(a),b)") @@
    "Seq(POP,b)" :> SeqOf("POP", "b") @@
    "Restorable(POP)" :> Un("Restorable", "POP") @@
    "Restorable(Seq(POP,b))" :> Un("Restorable", "Seq(POP,b)") @@
    "s1" :> Wrap("Rule", "s1", "a") @@
    "s2" :> Wrap("Rule", "s2", "Seq(a,b)") @@
    "s2_atomic" :> Wrap("AtomicRule", "s2_atomic", "Seq(a,b)") @@
    "s2_non_atomic" :> Wrap("NonAtomicRule", "s2_non_atomic", "Seq(a,b)") @@
    "RepFoo" :> Wrap("Rule", "RepFoo", "Rep(a)") @@
    "R" :> Wrap("NonAtomicRule", "RepFoo", "Rep(a)") @@
    "Rep(x)" :> RepOf("x") @@
    "Choice(Seq(Push(a),b),Push(a))" :> Bin("Choice", "Seq(Push(a),b)", "Push(a)") @@
    "Rule(s2)" :> Wrap("Rule", "Rule(s2)", "s2") @@
    "Rule(s2_atomic)" :> Wrap("Rule", "Rule(s2_atomic)", "s2_atomic") @@
    "Rule(s2_non_atomic)" :> Wrap("Rule", "Rule(s2_non_atomic)", "s2_non_atomic") @@
    "AtomicRule(s2)" :> Wrap("AtomicRule", "AtomicRule(s2)", "s2") @@
    "AtomicRule(s2_non_atomic)" :>
        Wrap("AtomicRule", "AtomicRule(s2_non_atomic)", "s2_non_atomic") @@
    "NonAtomicRule(s2_atomic)" :>
        Wrap("NonAtomicRule", "NonAtomicRule(s2_atomic)", "s2_atomic") @@
    "AtomicRule(Rule(s2_non_atomic))" :>
        Wrap("AtomicRule", "AtomicRule(Rule(s2_non_atomic))", "Rule(s2_non_atomic)") @@
    "NonAtomicRule(Rule(s2_atomic))" :>
        Wrap("NonAtomicRule", "NonAtomicRule(Rule(s2_atomic))", "Rule(s2_atomic)") @@
    "AtomicRule(Rule(s2))" :> Wrap("AtomicRule", "AtomicRule(Rule(s2))", "Rule(s2)") @@
    "Positive(Restorable(Seq(Push(a),b)))" :>
        Un("Positive", "Restorable(Seq(Push(a),b))") @@
    "Negative(Restorable(Seq(Push(a),b)))" :>
        Un("Negative", "Restorable(Seq(Push(a),b))") @@
    "Option(Positive(Push(a)))" :> Un("Option", "Positive(Push(a))") @@
    "Restorable(Option((Push(a),b)))" :> Un("Restorable", "Option((Push(a),b))") @@
    "Opt(' ')" :> Un("Opt", "' '") @@
    "Ign(COMMENT,Opt(' '))" :> Bin("Ign", "COMMENT", "Opt(' ')") @@
    "Ign(Positive(a),WHITESPACE)" :> Bin("Ign", "Positive(a)", "WHITESPACE") @@
    "Seq(a,a)" :> SeqOf("a", "a") @@
    "Rule(Seq(a,a))" :> Wrap("Rule", "WHITESPACE", "Seq(a,a)") @@
    "Ign(COMMENT,Rule(Seq(a,a)))" :> Bin("Ign", "COMMENT", "Rule(Seq(a,a))")

NodeIds == DOMAIN Node

\* the matchers that are instantiations of op
NodesOf(op) == {n \in NodeIds : Node[n].op = op}

(***************************************************************************)
(* Results of try_parse_with: Ok((input, node)) or Err(tracker), with the  *)
(* stack as the call left it.  seen is the set of matchers entered during  *)
(* the call; hang marks a call that does not return.                       *)
(***************************************************************************)
OkR(p, st, node, seen) ==
    [ok |-> TRUE, pos |-> p, stack |-> st, err |-> NoTracker, node |-> node,
     seen |-> seen, hang |-> FALSE]

ErrR(p, st, err, seen) ==
    [ok |-> FALSE, pos |-> p, stack |-> st, err |-> err, node |-> <<>>,
     seen |-> seen, hang |-> FALSE]

RECURSIVE Eval(_, _, _, _, _)

\* a callee that does not return: neither does its caller
Stuck(r, seen) == [r EXCEPT !.ok = FALSE, !.hang = TRUE, !.seen = @ \cup seen]

(***************************************************************************)
(* Terminals                                                               *)
(***************************************************************************)
\* the offset of the first character of s the input does not have, from p
RECURSIVE MismatchAt(_, _)
MismatchAt(p, s) ==
    IF s = <<>> \/ p >= Len(input) \/ input[p + 1] # Head(s) THEN p
    ELSE MismatchAt(p + 1, Tail(s))

\* Str that reports its failure where the literal stops matching
Str_fails_at_mismatch(n, p, st, atomic, rule) ==
    IF MatchString(p, n.s)
    THEN OkR(p + Len(n.s), st, <<"Str">>, {})
    ELSE ErrR(p, st, TrackerNew(MismatchAt(p, n.s)), {})

Str_try_parse_with(n, p, st, atomic, rule) ==
    IF MatchString(p, n.s)
    THEN OkR(p + Len(n.s), st, <<"Str">>, {})
    ELSE ErrR(p, st, TrackerNew(p), {})

CharRange_try_parse_with(n, p, st, atomic, rule) ==
    IF MatchRange(p, n.s[1], n.s[2])
    THEN OkR(p + 1, st, <<"CharRange", input[p + 1]>>, {})
    ELSE ErrR(p, st, TrackerNewPositive(rule, p), {})

EOI_try_parse_with(n, p, st, atomic, rule) ==
    IF AtEnd(p) THEN OkR(p, st, <<"EOI">>, {})
    ELSE ErrR(p, st, TrackerNewPositive(rule, p), {})

AlwaysFail_try_parse_with(n, p, st, atomic, rule) == ErrR(p, st, TrackerNew(p), {})

(***************************************************************************)
(* Predicates                                                              *)
(***************************************************************************)
\* Positive that commits the stack of a successful lookahead
Positive_keeps_stack(n, p, st, atomic, rule) ==
    LET r == Eval(n.a, p, StackSnapshot(st), atomic, rule)
    IN IF r.hang THEN Stuck(r, {})
       ELSE IF r.ok
       THEN OkR(p, StackClearSnapshot(r.stack), <<"Positive">> \o r.node, r.seen)
       ELSE ErrR(p, StackRestore(r.stack), TrackerNewPositive(rule, p), r.seen)

\* Positive that returns the position its inner matcher reached
Positive_advances(n, p, st, atomic, rule) ==
    LET r == Eval(n.a, p, StackSnapshot(st), atomic, rule)
    IN IF r.hang THEN Stuck(r, {})
       ELSE IF r.ok
       THEN OkR(r.pos, StackRestore(r.stack), <<"Positive">> \o r.node, r.seen)
       ELSE ErrR(p, StackRestore(r.stack), TrackerNewPositive(rule, p), r.seen)

Positive_try_parse_with(n, p, st, atomic, rule) ==
    LET r == Eval(n.a, p, StackSnapshot(st), atomic, rule)
    IN IF r.hang THEN Stuck(r, {})
       ELSE IF r.ok
       THEN OkR(p, StackRestore(r.stack), <<"Positive">> \o r.node, r.seen)
       ELSE ErrR(p, StackRestore(r.stack), TrackerNewPositive(rule, p), r.seen)

Negative_try_parse_with(n, p, st, atomic, rule) ==
    LET r == Eval(n.a, p, StackSnapshot(st), atomic, rule)
    IN IF r.hang THEN Stuck(r, {})
       ELSE IF r.ok
       THEN ErrR(p, StackRestore(r.stack), TrackerNewNegative(rule, p), r.seen)
       ELSE OkR(p, StackRestore(r.stack), <<"Negative">>, r.seen)

(***************************************************************************)
(* Stack matchers                                                          *)
(***************************************************************************)
\* stack_slice: <<>> is Err(SliceOutOfBound), <<spans>> is Ok(iterator over spans)
\* stack_slice that takes an index pair it cannot resolve for the empty slice
stack_slice_lenient(start, end, st) ==
    LET range == ConstrainIdxs(start, end, StackLen(st))
    IN IF range = <<>> THEN << <<>> >>
       ELSE IF range[2] <= range[1] THEN << <<>> >>
       ELSE << SubSeq(st.elems, range[1] + 1, range[2]) >>

stack_slice(start, end, st) ==
    LET range == ConstrainIdxs(start, end, StackLen(st))
    IN IF range = <<>> THEN <<>>
       ELSE IF range[2] <= range[1] THEN << <<>> >>
       ELSE << SubSeq(st.elems, range[1] + 1, range[2]) >>

\* the loop of peek_spans: <<>> when a span does not match, else <<matching_pos>>
RECURSIVE MatchSpans(_, _)
MatchSpans(q, spans) ==
    IF spans = <<>> THEN <<q>>
    ELSE IF MatchString(q, AsStr(Head(spans)))
    THEN MatchSpans(q + Len(AsStr(Head(spans))), Tail(spans))
    ELSE <<>>

peek_spans(p, spans, st, tag) ==
    LET m == MatchSpans(p, spans)
    IN IF m = <<>> THEN ErrR(p, st, TrackerNew(p), {})
       ELSE OkR(m[1], st, <<tag>>, {})

\* PEEK_ALL that takes the entries in the order they were pushed
PEEK_ALL_bottom_up(n, p, st, atomic, rule) ==
    peek_spans(p, st.elems, st, "PEEK_ALL")

PEEK_ALL_try_parse_with(n, p, st, atomic, rule) ==
    peek_spans(p, Reverse(st.elems), st, "PEEK_ALL")

\* PEEK that removes the entry it matched
PEEK_pops(n, p, st, atomic, rule) ==
    IF StackLen(st) = 0 THEN ErrR(p, st, TrackerEmptyStack(p), {})
    ELSE IF MatchString(p, AsStr(StackPeek(st)))
    THEN OkR(p + Len(AsStr(StackPeek(st))), StackPop(st), <<"PEEK">>, {})
    ELSE ErrR(p, st, TrackerNew(p), {})

PEEK_try_parse_with(n, p, st, atomic, rule) ==
    IF StackLen(st) = 0 THEN ErrR(p, st, TrackerEmptyStack(p), {})
    ELSE IF MatchString(p, AsStr(StackPeek(st)))
    THEN OkR(p + Len(AsStr(StackPeek(st))), st, <<"PEEK">>, {})
    ELSE ErrR(p, st, TrackerNew(p), {})

\* DROP that requires the input to match the entry it removes
DROP_matches(n, p, st, atomic, rule) ==
    IF StackLen(st) = 0 THEN ErrR(p, st, TrackerEmptyStack(p), {})
    ELSE IF MatchString(p, AsStr(StackPeek(st)))
    THEN OkR(p, StackPop(st), <<"DROP">>, {})
    ELSE ErrR(p, StackPop(st), TrackerNew(p), {})

DROP_try_parse_with(n, p, st, atomic, rule) ==
    IF StackLen(st) = 0 THEN ErrR(p, st, TrackerEmptyStack(p), {})
    ELSE OkR(p, StackPop(st), <<"DROP">>, {})

POP_try_parse_with(n, p, st, atomic, rule) ==
    IF StackLen(st) = 0 THEN ErrR(p, st, TrackerEmptyStack(p), {})
    ELSE IF MatchString(p, AsStr(StackPeek(st)))
    THEN OkR(p + Len(AsStr(StackPeek(st))), StackPop(st), <<"POP">>, {})
    ELSE ErrR(p, StackPop(st), TrackerNew(p), {})

\* POP_ALL that empties the stack before it matches
POP_ALL_pops_first(n, p, st, atomic, rule) ==
    LET r == PEEK_ALL_try_parse_with(n, p, st, atomic, rule)
    IN IF r.ok THEN OkR(r.pos, [st EXCEPT !.elems = <<>>], <<"POP_ALL">>, {})
       ELSE [r EXCEPT !.stack = [st EXCEPT !.elems = <<>>]]

POP_ALL_try_parse_with(n, p, st, atomic, rule) ==
    LET r == PEEK_ALL_try_parse_with(n, p, st, atomic, rule)
    IN IF r.ok THEN OkR(r.pos, [st EXCEPT !.elems = <<>>], <<"POP_ALL">>, {})
       ELSE r

\* Push that pushes the empty span at the position its inner matcher reached
Push_pushes_end(n, p, st, atomic, rule) ==
    LET r == Eval(n.a, p, st, atomic, rule)
    IN IF r.hang THEN Stuck(r, {})
       ELSE IF r.ok
       THEN OkR(r.pos, StackPush(r.stack, Span(r.pos, r.pos)), <<"Push">> \o r.node, r.seen)
       ELSE r

Push_try_parse_with(n, p, st, atomic, rule) ==
    LET r == Eval(n.a, p, st, atomic, rule)
    IN IF r.hang THEN Stuck(r, {})
       ELSE IF r.ok
       THEN OkR(r.pos, StackPush(r.stack, Span(p, r.pos)), <<"Push">> \o r.node, r.seen)
       ELSE r

PeekSlice2_try_parse_with(n, p, st, atomic, rule) ==
    LET spans == stack_slice(n.start, n.end, st)
    IN IF spans = <<>>
       THEN ErrR(p, st, TrackerSliceOutOfBound(n.start, n.end, p), {})
       ELSE peek_spans(p, spans[1], st, "PeekSlice2")

PeekSlice1_try_parse_with(n, p, st, atomic, rule) ==
    LET spans == stack_slice(n.start, <<>>, st)
    IN IF spans = <<>>
       THEN ErrR(p, st, TrackerSliceOutOfBound(n.start, <<>>, p), {})
       ELSE peek_spans(p, spans[1], st, "PeekSlice1")

(***************************************************************************)
(* Ign: skip COMMENT and WHITESPACE                                        *)
(***************************************************************************)
\* one `while let Ok((remained, _)) = M::try_parse_with::<true, Rule>(input, stack)`;
\* an Ok that moves neither the position nor the stack repeats for ever
RECURSIVE IgnWhile(_, _, _, _)
IgnWhile(m, p, st, rule) ==
    LET r == Eval(m, p, st, TRUE, rule)
    IN IF r.hang \/ (r.ok /\ r.pos = p /\ r.stack = st)
       THEN [pos |-> p, stack |-> r.stack, flag |-> FALSE, hang |-> TRUE, seen |-> r.seen]
       ELSE IF ~r.ok
       THEN [pos |-> p, stack |-> r.stack, flag |-> FALSE, hang |-> FALSE, seen |-> r.seen]
       ELSE LET w == IgnWhile(m, r.pos, r.stack, rule)
            IN [w EXCEPT !.flag = TRUE, !.seen = @ \cup r.seen]

\* one turn of `while flag` and no more: WHITESPACE while it matches, then COMMENT
\* while it matches
IgnLoop_one_turn(n, p, st, rule) ==
    LET w == IgnWhile(n.b, p, st, rule)
        c == IgnWhile(n.a, w.pos, w.stack, rule)
    IN IF w.hang THEN w
       ELSE [c EXCEPT !.seen = @ \cup w.seen]

\* `while flag`
RECURSIVE IgnLoop(_, _, _, _)
IgnLoop(n, p, st, rule) ==
    LET w == IgnWhile(n.b, p, st, rule)
        c == IgnWhile(n.a, w.pos, w.stack, rule)
    IN IF w.hang THEN w
       ELSE IF c.hang THEN [c EXCEPT !.seen = @ \cup w.seen]
       ELSE IF w.flag \/ c.flag
       THEN LET l == IgnLoop(n, c.pos, c.stack, rule)
            IN [l EXCEPT !.seen = @ \cup w.seen \cup c.seen]
       ELSE [c EXCEPT !.seen = @ \cup w.seen]

\* Ign without the early return on ATOMIC
Ign_skips_when_atomic(n, p, st, atomic, rule) ==
    LET l == IgnLoop(n, p, st, rule)
    IN IF l.hang THEN Stuck(ErrR(p, l.stack, NoTracker, l.seen), {})
       ELSE OkR(l.pos, l.stack, <<"Ign">>, l.seen)

Ign_parse_with(n, p, st, atomic, rule) ==
    IF atomic THEN OkR(p, st, <<"Ign">>, {})
    ELSE LET l == IgnLoop(n, p, st, rule)
         IN IF l.hang THEN Stuck(ErrR(p, l.stack, NoTracker, l.seen), {})
            ELSE OkR(l.pos, l.stack, <<"Ign">>, l.seen)

(***************************************************************************)
(* Structural matchers                                                     *)
(***************************************************************************)
Opt_try_parse_with(n, p, st, atomic, rule) ==
    LET r == Eval(n.a, p, st, atomic, rule)
    IN IF r.hang THEN Stuck(r, {})
       ELSE IF r.ok THEN OkR(r.pos, r.stack, <<"Some">> \o r.node, r.seen)
       ELSE OkR(p, r.stack, <<"None">>, r.seen)

\* restore_on_none that leaves its marker pending when the closure returns Some
restore_on_none_keeps_marker(m, p, st, atomic, rule) ==
    LET res == Eval(m, p, StackSnapshot(st), atomic, rule)
    IN IF res.hang THEN res
       ELSE IF res.ok THEN res
       ELSE [res EXCEPT !.stack = StackRestore(@)]

\* restore_on_none(stack, |stack| T::try_parse_with(input, stack, tracker)), T the node m
restore_on_none(m, p, st, atomic, rule) ==
    LET res == Eval(m, p, StackSnapshot(st), atomic, rule)
    IN IF res.hang THEN res
       ELSE IF res.ok THEN [res EXCEPT !.stack = StackClearSnapshot(@)]
       ELSE [res EXCEPT !.stack = StackRestore(@)]

Option_try_parse_with(n, p, st, atomic, rule) ==
    LET res == restore_on_none(n.a, p, st, atomic, rule)
    IN IF res.hang THEN Stuck(res, {})
       ELSE IF res.ok THEN OkR(res.pos, res.stack, <<"Some">> \o res.node, res.seen)
       ELSE OkR(p, res.stack, <<"None">>, res.seen)

Tuple_try_parse_with(n, p, st, atomic, rule) ==
    LET r1 == Eval(n.a, p, st, atomic, rule)
        r2 == Eval(n.b, r1.pos, r1.stack, atomic, rule)
    IN IF r1.hang THEN Stuck(r1, {})
       ELSE IF ~r1.ok THEN r1
       ELSE IF r2.hang THEN Stuck(r2, r1.seen)
       ELSE IF ~r2.ok THEN ErrR(p, r2.stack, r2.err, r1.seen \cup r2.seen)
       ELSE OkR(r2.pos, r2.stack, <<"(">> \o r1.node \o r2.node \o <<")">>,
                r1.seen \cup r2.seen)

\* Seq that runs IGNORED in front of its first child as well
Seq_skips_in_front(n, p, st, atomic, rule) ==
    LET ig0 == Eval(n.ign, p, st, atomic, rule)
        r1 == Eval(n.a, ig0.pos, ig0.stack, atomic, rule)
        ig == Eval(n.ign, r1.pos, r1.stack, atomic, rule)
        r2 == Eval(n.b, ig.pos, ig.stack, atomic, rule)
    IN IF ig0.hang THEN Stuck(ig0, {})
       ELSE IF r1.hang THEN Stuck(r1, ig0.seen)
       ELSE IF ~r1.ok THEN [r1 EXCEPT !.seen = @ \cup ig0.seen]
       ELSE IF ig.hang THEN Stuck(ig, r1.seen \cup ig0.seen)
       ELSE IF r2.hang THEN Stuck(r2, r1.seen \cup ig.seen \cup ig0.seen)
       ELSE IF ~r2.ok
       THEN ErrR(p, r2.stack, r2.err, r1.seen \cup ig.seen \cup r2.seen \cup ig0.seen)
       ELSE OkR(r2.pos, r2.stack, <<"Seq[">> \o r1.node \o r2.node \o <<"]">>,
                r1.seen \cup ig.seen \cup r2.seen \cup ig0.seen)

\* Seq that hands the stack back as it got it when its second child fails
Seq_undoes_stack(n, p, st, atomic, rule) ==
    LET r1 == Eval(n.a, p, st, atomic, rule)
        ig == Eval(n.ign, r1.pos, r1.stack, atomic, rule)
        r2 == Eval(n.b, ig.pos, ig.stack, atomic, rule)
    IN IF r1.hang THEN Stuck(r1, {})
       ELSE IF ~r1.ok THEN r1
       ELSE IF ig.hang THEN Stuck(ig, r1.seen)
       ELSE IF r2.hang THEN Stuck(r2, r1.seen \cup ig.seen)
       ELSE IF ~r2.ok THEN ErrR(p, st, r2.err, r1.seen \cup ig.seen \cup r2.seen)
       ELSE OkR(r2.pos, r2.stack, <<"Seq[">> \o r1.node \o r2.node \o <<"]">>,
                r1.seen \cup ig.seen \cup r2.seen)

Seq_try_parse_with(n, p, st, atomic, rule) ==
    LET r1 == Eval(n.a, p, st, atomic, rule)
        ig == Eval(n.ign, r1.pos, r1.stack, atomic, rule)
        r2 == Eval(n.b, ig.pos, ig.stack, atomic, rule)
    IN IF r1.hang THEN Stuck(r1, {})
       ELSE IF ~r1.ok THEN r1
       ELSE IF ig.hang THEN Stuck(ig, r1.seen)
       ELSE IF r2.hang THEN Stuck(r2, r1.seen \cup ig.seen)
       ELSE IF ~r2.ok THEN ErrR(p, r2.stack, r2.err, r1.seen \cup ig.seen \cup r2.seen)
       ELSE OkR(r2.pos, r2.stack, <<"Seq[">> \o r1.node \o r2.node \o <<"]">>,
                r1.seen \cup ig.seen \cup r2.seen)

\* Choice that tries both alternatives and keeps the longer match
Choice_longest_match(n, p, st, atomic, rule) ==
    LET r1 == Eval(n.a, p, st, atomic, rule)
        r2 == Eval(n.b, p, r1.stack, atomic, rule)
    IN IF r1.hang THEN Stuck(r1, {})
       ELSE IF r2.hang THEN Stuck(r2, r1.seen)
       ELSE IF r1.ok /\ (~r2.ok \/ r1.pos >= r2.pos)
       THEN OkR(r1.pos, r1.stack, <<"First">> \o r1.node, r1.seen \cup r2.seen)
       ELSE IF r2.ok
       THEN OkR(r2.pos, r2.stack, <<"Second">> \o r2.node, r1.seen \cup r2.seen)
       ELSE ErrR(p, r2.stack, TrackerMerge(r1.err, r2.err), r1.seen \cup r2.seen)

\* Choice that runs its second alternative on the stack the Choice was entered with
Choice_second_on_entry_stack(n, p, st, atomic, rule) ==
    LET r1 == Eval(n.a, p, st, atomic, rule)
        r2 == Eval(n.b, p, st, atomic, rule)
    IN IF r1.hang THEN Stuck(r1, {})
       ELSE IF r1.ok THEN OkR(r1.pos, r1.stack, <<"First">> \o r1.node, r1.seen)
       ELSE IF r2.hang THEN Stuck(r2, r1.seen)
       ELSE IF r2.ok
       THEN OkR(r2.pos, r2.stack, <<"Second">> \o r2.node, r1.seen \cup r2.seen)
       ELSE ErrR(p, r2.stack, TrackerMerge(r1.err, r2.err), r1.seen \cup r2.seen)

Choice_try_parse_with(n, p, st, atomic, rule) ==
    LET r1 == Eval(n.a, p, st, atomic, rule)
        r2 == Eval(n.b, p, r1.stack, atomic, rule)
    IN IF r1.hang THEN Stuck(r1, {})
       ELSE IF r1.ok THEN OkR(r1.pos, r1.stack, <<"First">> \o r1.node, r1.seen)
       ELSE IF r2.hang THEN Stuck(r2, r1.seen)
       ELSE IF r2.ok
       THEN OkR(r2.pos, r2.stack, <<"Second">> \o r2.node, r1.seen \cup r2.seen)
       ELSE ErrR(p, r2.stack, TrackerMerge(r1.err, r2.err), r1.seen \cup r2.seen)

\* the iteration cap of Rep
RepMax == 1024

\* a turn of the loop without the check of i against the cap: a turn after the first that
\* moves neither the position nor the stack is repeated for ever
RepIter_no_cap(n, s, atomic, rule) ==
    LET ig == IF s.i # 0 THEN Eval(n.ign, s.pos, s.stack, atomic, rule)
              ELSE OkR(s.pos, s.stack, <<>>, {})
        r == Eval(n.a, ig.pos, ig.stack, atomic, rule)
    IN IF ig.hang \/ r.hang \/ (s.i # 0 /\ r.ok /\ r.pos = s.pos /\ r.stack = s.stack)
       THEN [s EXCEPT !.done = TRUE, !.hang = TRUE, !.seen = @ \cup ig.seen \cup r.seen]
       ELSE IF r.ok
       THEN [i |-> s.i + 1, pos |-> r.pos, stack |-> r.stack, vec |-> s.vec \o r.node,
             seen |-> s.seen \cup ig.seen \cup r.seen, done |-> FALSE,
             capped |-> FALSE, hang |-> FALSE]
       ELSE [s EXCEPT !.pos = ig.pos, !.stack = r.stack, !.done = TRUE,
                      !.seen = @ \cup ig.seen \cup r.seen]

\* a turn of the loop that goes from one element straight to the next, IGNORED not run
RepIter_no_ignore(n, s, atomic, rule) ==
    LET r == Eval(n.a, s.pos, s.stack, atomic, rule)
    IN IF r.hang
       THEN [s EXCEPT !.done = TRUE, !.hang = TRUE, !.seen = @ \cup r.seen]
       ELSE IF r.ok
       THEN [i |-> s.i + 1, pos |-> r.pos, stack |-> r.stack, vec |-> s.vec \o r.node,
             seen |-> s.seen \cup r.seen, done |-> s.i + 1 > RepMax,
             capped |-> s.i + 1 > RepMax, hang |-> FALSE]
       ELSE [s EXCEPT !.stack = r.stack, !.done = TRUE, !.seen = @ \cup r.seen]

\* a turn of the loop that gives up when i reaches the cap, not when it exceeds it
RepIter_cap_at_max(n, s, atomic, rule) ==
    LET ig == IF s.i # 0 THEN Eval(n.ign, s.pos, s.stack, atomic, rule)
              ELSE OkR(s.pos, s.stack, <<>>, {})
        r == Eval(n.a, ig.pos, ig.stack, atomic, rule)
    IN IF ig.hang
       THEN [s EXCEPT !.done = TRUE, !.hang = TRUE, !.seen = @ \cup ig.seen]
       ELSE IF r.hang
       THEN [s EXCEPT !.done = TRUE, !.hang = TRUE, !.seen = @ \cup ig.seen \cup r.seen]
       ELSE IF r.ok
       THEN [i |-> s.i + 1, pos |-> r.pos, stack |-> r.stack, vec |-> s.vec \o r.node,
             seen |-> s.seen \cup ig.seen \cup r.seen, done |-> s.i + 1 >= RepMax,
             capped |-> s.i + 1 >= RepMax, hang |-> FALSE]
       ELSE [s EXCEPT !.pos = ig.pos, !.stack = r.stack, !.done = TRUE,
                      !.seen = @ \cup ig.seen \cup r.seen]

\* one turn of the `loop` of Rep; s is [i, pos, stack, vec, seen, done, capped, hang]
RepIter(n, s, atomic, rule) ==
    LET ig == IF s.i # 0 THEN Eval(n.ign, s.pos, s.stack, atomic, rule)
              ELSE OkR(s.pos, s.stack, <<>>, {})
        r == Eval(n.a, ig.pos, ig.stack, atomic, rule)
    IN IF ig.hang
       THEN [s EXCEPT !.done = TRUE, !.hang = TRUE, !.seen = @ \cup ig.seen]
       ELSE IF r.hang
       THEN [s EXCEPT !.done = TRUE, !.hang = TRUE, !.seen = @ \cup ig.seen \cup r.seen]
       ELSE IF r.ok
       THEN [i |-> s.i + 1, pos |-> r.pos, stack |-> r.stack, vec |-> s.vec \o r.node,
             seen |-> s.seen \cup ig.seen \cup r.seen, done |-> s.i + 1 > RepMax,
             capped |-> s.i + 1 > RepMax, hang |-> FALSE]
       ELSE [s EXCEPT !.pos = ig.pos, !.stack = r.stack, !.done = TRUE,
                      !.seen = @ \cup ig.seen \cup r.seen]

\* 2^k turns of the loop, or fewer when it ends
RECURSIVE RepRun(_, _, _, _, _)
RepRun(n, s, k, atomic, rule) ==
    IF s.done THEN s
    ELSE IF k = 0 THEN RepIter(n, s, atomic, rule)
    ELSE RepRun(n, RepRun(n, s, k - 1, atomic, rule), k - 1, atomic, rule)

\* the `loop` of Rep, run to its end
RECURSIVE RepLoop(_, _, _, _, _)
RepLoop(n, s, k, atomic, rule) ==
    LET s2 == RepRun(n, s, k, atomic, rule)
    IN IF s2.done THEN s2 ELSE RepLoop(n, s2, k + 1, atomic, rule)

Rep_try_parse_with(n, p, st, atomic, rule) ==
    LET s == RepLoop(n, [i |-> 0, pos |-> p, stack |-> st, vec |-> <<>>, seen |-> {},
                         done |-> FALSE, capped |-> FALSE, hang |-> FALSE],
                     0, atomic, rule)
    IN IF s.hang THEN Stuck(ErrR(p, s.stack, NoTracker, s.seen), {})
       ELSE IF s.capped THEN ErrR(p, s.stack, TrackerRepeatTooManyTimes(s.pos), s.seen)
       ELSE OkR(s.pos, s.stack, <<"Rep[">> \o s.vec \o <<"]">>, s.seen)

Restorable_try_parse_with(n, p, st, atomic, rule) ==
    LET r == Eval(n.a, p, StackSnapshot(st), atomic, rule)
    IN IF r.hang THEN Stuck(r, {})
       ELSE IF r.ok THEN [r EXCEPT !.stack = StackClearSnapshot(@)]
       ELSE [r EXCEPT !.stack = StackRestore(@)]

(***************************************************************************)
(* Rule wrappers                                                           *)
(***************************************************************************)
\* the match arms shared by the three wrappers
Wrapped(n, p, r) ==
    IF r.hang THEN Stuck(r, {})
    ELSE IF r.ok THEN [r EXCEPT !.node = <<n.rule>> \o @]
    ELSE [r EXCEPT !.err = TrackerNest(@, n.rule, p)]

AtomicRule_try_parse_with(n, p, st, atomic, rule) ==
    Wrapped(n, p, Eval(n.a, p, st, TRUE, n.rule))

NonAtomicRule_try_parse_with(n, p, st, atomic, rule) ==
    Wrapped(n, p, Eval(n.a, p, st, FALSE, n.rule))

\* Rule that turns skipping on for its body, as NonAtomicRule does
Rule_forces_non_atomic(n, p, st, atomic, rule) ==
    Wrapped(n, p, Eval(n.a, p, st, FALSE, n.rule))

Rule_try_parse_with(n, p, st, atomic, rule) ==
    Wrapped(n, p, Eval(n.a, p, st, atomic, n.rule))

\* T::try_parse_with::<ATOMIC, Rule>(input, stack) for the matcher type n
Dispatch(n, p, st, atomic, rule) ==
    LET op == n.op
    IN CASE op = "Str" -> Str_try_parse_with(n, p, st, atomic, rule)
         [] op = "CharRange" -> CharRange_try_parse_with(n, p, st, atomic, rule)
         [] op = "EOI" -> EOI_try_parse_with(n, p, st, atomic, rule)
         [] op = "AlwaysFail" -> AlwaysFail_try_parse_with(n, p, st, atomic, rule)
         [] op = "Positive" -> Positive_try_parse_with(n, p, st, atomic, rule)
         [] op = "Negative" -> Negative_try_parse_with(n, p, st, atomic, rule)
         [] op = "PEEK" -> PEEK_try_parse_with(n, p, st, atomic, rule)
         [] op = "PEEK_ALL" -> PEEK_ALL_try_parse_with(n, p, st, atomic, rule)
         [] op = "DROP" -> DROP_try_parse_with(n, p, st, atomic, rule)
         [] op = "POP" -> POP_try_parse_with(n, p, st, atomic, rule)
         [] op = "POP_ALL" -> POP_ALL_try_parse_with(n, p, st, atomic, rule)
         [] op = "Push" -> Push_try_parse_with(n, p, st, atomic, rule)
         [] op = "PeekSlice1" -> PeekSlice1_try_parse_with(n, p, st, atomic, rule)
         [] op = "PeekSlice2" -> PeekSlice2_try_parse_with(n, p, st, atomic, rule)
         [] op = "Ign" -> Ign_parse_with(n, p, st, atomic, rule)
         [] op = "Opt" -> Opt_try_parse_with(n, p, st, atomic, rule)
         [] op = "Option" -> Option_try_parse_with(n, p, st, atomic, rule)
         [] op = "Tuple" -> Tuple_try_parse_with(n, p, st, atomic, rule)
         [] op = "Seq" -> Seq_try_parse_with(n, p, st, atomic, rule)
         [] op = "Choice" -> Choice_try_parse_with(n, p, st, atomic, rule)
         [] op = "Rep" -> Rep_try_parse_with(n, p, st, atomic, rule)
         [] op = "Restorable" -> Restorable_try_parse_with(n, p, st, atomic, rule)
         [] op = "AtomicRule" -> AtomicRule_try_parse_with(n, p, st, atomic, rule)
         [] op = "NonAtomicRule" -> NonAtomicRule_try_parse_with(n, p, st, atomic, rule)
         [] op = "Rule" -> Rule_try_parse_with(n, p, st, atomic, rule)

Eval(id, p, st, atomic, rule) ==
    LET r == Dispatch(Node[id], p, st, atomic, rule)
    IN [r EXCEPT !.seen = @ \cup {id}]

(***************************************************************************)
(* Entry points                                                            *)
(***************************************************************************)
\* parse::<R, RULE, _EOI, _Self, IGNORED>(input), _Self the rule n
\* the end of parse and parse_without_ignore: r the result of the rule, seen the nodes
\* entered after it, e the result of EOI::try_parse_with
parse_EOI(r, seen, e) ==
    IF ~e.ok THEN [e EXCEPT !.seen = @ \cup r.seen \cup seen]
    ELSE [r EXCEPT !.pos = e.pos, !.stack = e.stack, !.seen = @ \cup seen \cup e.seen]

\* parse after the rule: ig the result of IGNORED::parse_with
parse_IGNORED(r, ig) ==
    IF ig.hang THEN Stuck(ig, r.seen)
    ELSE parse_EOI(r, ig.seen, Eval("EOI", ig.pos, ig.stack, FALSE, "EOI"))

\* parse after _Self::try_parse_with has returned r
parse_Self(ign, r) ==
    IF r.hang \/ ~r.ok THEN r
    ELSE parse_IGNORED(r, Eval(ign, r.pos, r.stack, FALSE, "EOI"))

parse(n) == parse_Self(Node[n].ign, Eval(n, 0, StackNew, FALSE, Node[n].rule))

\* parse_without_ignore::<R, RULE, _EOI, _Self>(input)
parse_without_ignore_Self(r) ==
    IF r.hang \/ ~r.ok THEN r
    ELSE parse_EOI(r, {}, Eval("EOI", r.pos, r.stack, FALSE, "EOI"))

parse_without_ignore(n) ==
    parse_without_ignore_Self(Eval(n, 0, StackNew, FALSE, Node[n].rule))

\* parse_partial that goes on to skip ignored text and to require the end of input
parse_partial_until_end(n) == parse(n)

\* parse_partial::<R, RULE, _Self>(input)
parse_partial(n) == Eval(n, 0, StackNew, FALSE, Node[n].rule)

\* <AtomicRule as ParsableTypedNode>::parse
AtomicRule_parse(n) == parse_without_ignore(n)
\* <NonAtomicRule as ParsableTypedNode>::parse
NonAtomicRule_parse(n) == parse(n)
\* <Rule as ParsableTypedNode>::parse
Rule_parse(n) == parse(n)

\* the rules: the matcher types that implement ParsableTypedNode
Rules == NodesOf("Rule") \cup NodesOf("AtomicRule") \cup NodesOf("NonAtomicRule")

\* R::parse(input) for the rule n
Parsable_parse(n) ==
    CASE Node[n].op = "AtomicRule" -> AtomicRule_parse(n)
      [] Node[n].op = "NonAtomicRule" -> NonAtomicRule_parse(n)
      [] Node[n].op = "Rule" -> Rule_parse(n)

(***************************************************************************)
(* The state machine: on one input, matchers are called one after the      *)
(* other on the same stack, each from the position the last success left;  *)
(* or a rule's parse or parse_partial is called on the whole input.        *)
(***************************************************************************)
NoCall ==
    [kind |-> "none", n |-> "", pos0 |-> 0, stack0 |-> StackNew,
     res |-> OkR(0, StackNew, <<>>, {})]

Init ==
    /\ input \in Inputs
    /\ pos = 0
    /\ stack = StackNew
    /\ last = NoCall
    /\ calls = 0

\* a call sequence is a chain of successful Push calls, then one call of any matcher
Open ==
    \/ last.kind = "none"
    \/ last.kind = "call" /\ Node[last.n].op = "Push" /\ last.res.ok

\* n::try_parse_with::<false, _>(input, stack) at the current position
Returned(n, r) ==
    /\ pos' = IF r.ok THEN r.pos ELSE pos
    /\ stack' = r.stack
    /\ last' = [kind |-> "call", n |-> n, pos0 |-> pos, stack0 |-> stack, res |-> r]

Call(n) ==
    /\ calls < MaxCalls
    /\ Open
    /\ Returned(n, Eval(n, pos, stack, FALSE, "top"))
    /\ calls' = calls + 1
    /\ UNCHANGED input

\* the repetitions whose element can match without consuming input
EmptyInner == {"Rep(Opt(x))", "Rep(Choice(x,Positive(y)))", "Rep(Positive(x))"}

CallStr == \E n \in NodesOf("Str") : Call(n)
CallCharRange == \E n \in NodesOf("CharRange") : Call(n)
CallEOI == \E n \in NodesOf("EOI") : Call(n)
CallAlwaysFail == \E n \in NodesOf("AlwaysFail") : Call(n)
CallPositive == \E n \in NodesOf("Positive") : Call(n)
CallNegative == \E n \in NodesOf("Negative") : Call(n)
CallPEEK == \E n \in NodesOf("PEEK") : Call(n)
CallPEEK_ALL == \E n \in NodesOf("PEEK_ALL") : Call(n)
CallDROP == \E n \in NodesOf("DROP") : Call(n)
CallPOP == \E n \in NodesOf("POP") : Call(n)
CallPOP_ALL == \E n \in NodesOf("POP_ALL") : Call(n)
CallPush == \E n \in NodesOf("Push") : Call(n)
CallPeekSlice1 == \E n \in NodesOf("PeekSlice1") : Call(n)
CallPeekSlice2 == \E n \in NodesOf("PeekSlice2") : Call(n)
CallIgn == \E n \in NodesOf("Ign") : Call(n)
CallOpt == \E n \in NodesOf("Opt") : Call(n)
CallOption == \E n \in NodesOf("Option") : Call(n)
CallTuple == \E n \in NodesOf("Tuple") : Call(n)
CallSeq == \E n \in NodesOf("Seq") : Call(n)
CallChoice == \E n \in NodesOf("Choice") : Call(n)
CallRep == \E n \in NodesOf("Rep") \ EmptyInner : Call(n)
CallRepEmptyInner == \E n \in EmptyInner : Call(n)
CallRestorable == \E n \in NodesOf("Restorable") : Call(n)
CallAtomicRule == \E n \in NodesOf("AtomicRule") : Call(n)
CallNonAtomicRule == \E n \in NodesOf("NonAtomicRule") : Call(n)
CallRule == \E n \in NodesOf("Rule") : Call(n)

\* the result of an entry point, which owns its stack
Entry(kind, n, r) ==
    /\ calls = 0
    /\ pos' = r.pos
    /\ stack' = r.stack
    /\ last' = [kind |-> kind, n |-> n, pos0 |-> 0, stack0 |-> StackNew, res |-> r]
    /\ calls' = MaxCalls
    /\ UNCHANGED input

Parse == \E n \in Rules : Entry("parse", n, Parsable_parse(n))

ParsePartial == \E n \in Rules : Entry("parse_partial", n, parse_partial(n))

Next ==
    \/ CallStr \/ CallCharRange \/ CallEOI \/ CallAlwaysFail
    \/ CallPositive \/ CallNegative
    \/ CallPEEK \/ CallPEEK_ALL \/ CallDROP \/ CallPOP \/ CallPOP_ALL \/ CallPush
    \/ CallPeekSlice1 \/ CallPeekSlice2
    \/ CallIgn \/ CallOpt \/ CallOption \/ CallTuple \/ CallSeq \/ CallChoice
    \/ CallRep \/ CallRestorable
    \/ CallAtomicRule \/ CallNonAtomicRule \/ CallRule
    \/ Parse \/ ParsePartial

Spec == Init /\ [][Next]_vars

\* a run of n characters "x"
Run(n) == [i \in 1..n |-> "x"]

\* the runs whose length is within MaxOver of the iteration cap
LongRuns == {Run(n) : n \in (RepMax - MaxOver)..(RepMax + MaxOver)}

\* repetitions that run into the iteration cap, on inputs over a smaller alphabet and
\* on runs about as long as the cap
InitCap ==
    /\ input \in Strings({"x", "y"}, MaxCapLen) \cup LongRuns
    /\ pos = 0
    /\ stack = StackNew
    /\ last = NoCall
    /\ calls = 0

NextCap == CallRepEmptyInner \/ CallRep

SpecCap == InitCap /\ [][NextCap]_vars

\* inputs that hold WHITESPACE and COMMENT text
InitIgn ==
    /\ input \in Strings({"a", " ", "\t"}, MaxIgnLen)
    /\ pos = 0
    /\ stack = StackNew
    /\ last = NoCall
    /\ calls = 0

NextIgn ==
    \/ CallIgn \/ CallSeq \/ CallRep
    \/ CallAtomicRule \/ CallNonAtomicRule \/ CallRule
    \/ Parse \/ ParsePartial

SpecIgn == InitIgn /\ [][NextIgn]_vars

(***************************************************************************)
(* Properties                                                              *)
(***************************************************************************)
IsCall(op) == last.kind = "call" /\ Node[last.n].op = op

\* the inner matcher of the last call, run from the state the call was entered in
Inner == Eval(Node[last.n].a, last.pos0, last.stack0, FALSE, "top")

Texts(elems) == [i \in 1..Len(elems) |-> AsStr(elems[i])]

Spaces(k) == [i \in 1..k |-> " "]

\* C1: for every rule, parse returns Ok exactly when the rule matches from offset 0
\* and, after Ign is run from the position the rule reached, that position is the end
\* of the input.
C1_ParseOkIffFullMatch ==
    last.kind = "parse" =>
        LET r == Eval(last.n, 0, StackNew, FALSE, Node[last.n].rule)
            ig == Eval(Node[last.n].ign, r.pos, r.stack, FALSE, "EOI")
        IN last.res.ok <=> (r.ok /\ AtEnd(ig.pos))

\* C2: when the first alternative of a Choice succeeds, the result is First, at the
\* position and with the stack the first alternative left, and nothing but the first
\* alternative was evaluated; Choice(Str a, Str ab) consumes one character.
C2_ChoiceCommitsToFirst ==
    IsCall("Choice") =>
        LET r1 == Inner
        IN r1.ok =>
            /\ last.res.ok
            /\ Head(last.res.node) = "First"
            /\ last.res.pos = r1.pos
            /\ last.res.stack = r1.stack
            /\ last.res.err = NoTracker
            /\ last.res.seen = r1.seen \cup {last.n}
            /\ last.n = "Choice(a,ab)" => last.res.pos = last.pos0 + 1

C2_Witness ==
    /\ last.kind = "call"
    /\ last.n = "Choice(a,ab)"
    /\ MatchString(last.pos0, <<"a", "b">>)
    /\ last.res.ok
    /\ last.res.pos = last.pos0 + 1
    /\ "ab" \notin last.res.seen

\* C3: a Rep returns on every input, also when its element matches without consuming:
\* either Ok, its element failing where the loop stopped, or Err(RepeatTooManyTimes).
C3_RepTerminates ==
    IsCall("Rep") =>
        /\ ~last.res.hang
        /\ \/ /\ last.res.ok
              /\ ~Eval(Node[last.n].a, last.res.pos, last.res.stack, FALSE, "top").ok
           \/ /\ ~last.res.ok
              /\ last.res.err.kind = "RepeatTooManyTimes"

C3_Witness ==
    /\ last.kind = "call"
    /\ last.n = "Rep(Opt(x))"
    /\ input = <<"x", "x", "x", "y">>
    /\ ~last.res.hang
    /\ ~last.res.ok
    /\ last.res.err.kind = "RepeatTooManyTimes"

\* C4: from an empty stack, Positive(Push(Str a)) then PEEK fails with EmptyStack where
\* the input has an "a"; Push(Str a) then PEEK succeeds exactly on "aa", PEEK consuming
\* the second "a".
C4_PushInLookaheadUndone ==
    last.kind = "call" =>
        /\ (/\ last.n = "(Positive(Push(a)),PEEK)"
            /\ last.stack0.elems = <<>>
            /\ MatchString(last.pos0, <<"a">>))
           => (/\ ~last.res.ok
               /\ last.res.err.kind = "EmptyStack"
               /\ last.res.stack = last.stack0)
        /\ last.n = "(Push(a),PEEK)"
           => (/\ last.res.ok <=> MatchString(last.pos0, <<"a", "a">>)
               /\ last.res.ok =>
                    /\ last.res.pos = last.pos0 + 2
                    /\ last.res.stack.elems =
                           Append(last.stack0.elems, <<last.pos0, last.pos0 + 1>>))

C4_Witness ==
    /\ last.kind = "call"
    /\ last.n = "(Positive(Push(a)),PEEK)"
    /\ last.stack0.elems = <<>>
    /\ MatchString(last.pos0, <<"a", "a">>)
    /\ ~last.res.ok
    /\ last.res.err.kind = "EmptyStack"

\* C5: with WHITESPACE a single space, Seq(Str a, Str b) under an atomic rule matches
\* "ab" only (it fails on "a b"); under a non-atomic rule it matches "a", any number of
\* spaces, "b" (it succeeds on "a b").
C5_AtomicSuppressesSkip ==
    last.kind = "call" =>
        /\ last.n = "s2_atomic" => (last.res.ok <=> MatchString(last.pos0, <<"a", "b">>))
        /\ last.n = "s2_non_atomic" =>
              (last.res.ok <=>
                 \E k \in 0..Len(input) :
                     MatchString(last.pos0, <<"a">> \o Spaces(k) \o <<"b">>))

C5_Witness ==
    /\ last.kind = "call"
    /\ last.n = "s2_atomic"
    /\ MatchString(last.pos0, <<"a", " ", "b">>)
    /\ ~last.res.ok

C7_SliceTopToBottom ==
    (last.kind = "call" /\ last.stack0.elems # <<>>) =>
        /\ last.n = "PeekSlice1<0>" =>
              /\ last.res.ok <=>
                    MatchString(last.pos0, Flatten(Reverse(Texts(last.stack0.elems))))
        /\ last.n = "PeekSlice1<-1>" =>
              /\ last.res.ok <=> MatchString(last.pos0, AsStr(last.stack0.elems[1]))

\* C8: Opt and Option never fail; when the inner matcher fails the result is absent, at
\* the position of entry, and the stack is as it was at entry.
C8_OptionalRestoresStack ==
    (IsCall("Opt") \/ IsCall("Option")) =>
        /\ last.res.ok
        /\ Inner.ok =>
              /\ Head(last.res.node) = "Some"
              /\ last.res.pos = Inner.pos
              /\ last.res.stack = Inner.stack
        /\ ~Inner.ok =>
              /\ last.res.node = <<"None">>
              /\ last.res.pos = last.pos0
              /\ last.res.stack = last.stack0

\* C9: Positive succeeds iff its inner matcher succeeds, Negative iff it fails, and a
\* predicate that succeeds returns the position it was entered at.
C9_LookaheadZeroWidth ==
    /\ IsCall("Positive") => (last.res.ok <=> Inner.ok)
    /\ IsCall("Negative") => (last.res.ok <=> ~Inner.ok)
    /\ (IsCall("Positive") \/ IsCall("Negative")) =>
          /\ last.res.ok => last.res.pos = last.pos0
          /\ pos = last.pos0

C9_Witness ==
    /\ last.kind = "call"
    /\ last.n = "Positive(ab)"
    /\ MatchString(last.pos0, <<"a", "b">>)
    /\ Inner.pos = last.pos0 + 2
    /\ last.res.ok
    /\ last.res.pos = last.pos0

\* C10: after Positive or Negative returns, whatever the outcome, the stack holds the
\* entries it held at entry, in the same order, also when the inner matcher popped
\* entries.
C10_LookaheadRestoresStack ==
    (IsCall("Positive") \/ IsCall("Negative")) => last.res.stack = last.stack0

\* C11: Restorable succeeds iff its inner matcher does; on success it keeps the position
\* and every stack mutation of the inner matcher, on failure the stack is exactly as it
\* was at entry and the failure is the inner matcher's, unchanged.
C11_RestorableTransactional ==
    IsCall("Restorable") =>
        /\ last.res.ok <=> Inner.ok
        /\ Inner.ok =>
              /\ last.res.pos = Inner.pos
              /\ last.res.stack = Inner.stack
        /\ ~Inner.ok =>
              /\ last.res.err = Inner.err
              /\ last.res.stack = last.stack0

\* the text of the top entry of the stack the last call was entered with
TopText == AsStr(last.stack0.elems[Len(last.stack0.elems)])

\* C12: on a non-empty stack POP succeeds iff the input matches the top entry; on success
\* it consumes that text and the stack is one entry shorter, on a mismatch it fails and
\* the stack is unchanged.
C12_PopOnlyOnMatch ==
    (IsCall("POP") /\ last.stack0.elems # <<>>) =>
        /\ last.res.ok <=> MatchString(last.pos0, TopText)
        /\ last.res.ok =>
              /\ last.res.pos = last.pos0 + Len(TopText)
              /\ last.res.stack = StackPop(last.stack0)
        /\ ~last.res.ok => last.res.stack = last.stack0

\* C13: POP_ALL succeeds iff PEEK_ALL does, at the same position; on success the stack
\* has no entries, on failure the stack is unchanged.
C13_PopAllAsPeekAll ==
    IsCall("POP_ALL") =>
        LET r == Eval("PEEK_ALL", last.pos0, last.stack0, FALSE, "top")
        IN /\ last.res.ok <=> r.ok
           /\ last.res.ok =>
                 /\ last.res.pos = r.pos
                 /\ last.res.stack.elems = <<>>
                 /\ last.res.stack.snapshots = last.stack0.snapshots
           /\ ~last.res.ok => last.res.stack = last.stack0

C13_Witness ==
    /\ IsCall("POP_ALL")
    /\ Len(last.stack0.elems) = 2
    /\ last.res.ok
    /\ last.res.pos > last.pos0
    /\ last.res.stack.elems = <<>>

C15_PeekAllTopDown ==
    IsCall("PEEK_ALL") =>
        LET all == Flatten(Reverse(Texts(last.stack0.elems)))
        IN /\ last.res.ok <=> MatchString(last.pos0, all)
           /\ last.res.ok => last.res.pos = last.pos0 + Len(all)
           /\ last.res.stack = last.stack0
           /\ last.stack0.elems = <<>> => (last.res.ok /\ last.res.pos = last.pos0)

C15_Witness ==
    /\ IsCall("PEEK_ALL")
    /\ Len(last.stack0.elems) = 2
    /\ AsStr(last.stack0.elems[1]) # AsStr(last.stack0.elems[2])
    /\ last.res.ok
    /\ last.res.pos = last.pos0 + 2

\* C16: DROP on a non-empty stack succeeds whatever the input is, removes the top entry
\* and returns the position it was entered at; on an empty stack it fails with
\* EmptyStack and the stack stays empty.
C16_DropZeroWidth ==
    IsCall("DROP") =>
        /\ last.stack0.elems # <<>> =>
              /\ last.res.ok
              /\ last.res.pos = last.pos0
              /\ last.res.stack = StackPop(last.stack0)
              /\ Len(last.res.stack.elems) = Len(last.stack0.elems) - 1
        /\ last.stack0.elems = <<>> =>
              /\ ~last.res.ok
              /\ last.res.err.kind = "EmptyStack"
              /\ last.res.stack = last.stack0

C16_Witness ==
    /\ IsCall("DROP")
    /\ last.stack0.elems # <<>>
    /\ ~MatchString(last.pos0, TopText)
    /\ last.res.ok
    /\ last.res.pos = last.pos0
    /\ Len(last.res.stack.elems) = Len(last.stack0.elems) - 1

\* the input consumed by the last call
Consumed == SubSeq(input, last.pos0 + 1, last.res.pos)

\* C17: Push succeeds iff its inner matcher does; on success it pushes one entry, the
\* span from the position of entry to the position the inner matcher returned, so that
\* a PEEK that follows requires the consumed text again; on failure it pushes nothing.
C17_PushSpanOfInner ==
    IsCall("Push") =>
        /\ last.res.ok <=> Inner.ok
        /\ Inner.ok =>
              /\ last.res.pos = Inner.pos
              /\ last.res.stack = StackPush(Inner.stack, <<last.pos0, Inner.pos>>)
              /\ Len(last.res.stack.elems) = Len(last.stack0.elems) + 1
              /\ AsStr(StackPeek(last.res.stack)) = Consumed
              /\ Eval("PEEK", last.res.pos, last.res.stack, FALSE, "top").ok
                    <=> MatchString(last.res.pos, Consumed)
        /\ ~Inner.ok =>
              /\ last.res.stack = Inner.stack
              /\ last.res.stack = last.stack0

C17_Witness ==
    /\ IsCall("Push")
    /\ last.n = "Push(ab)"
    /\ last.res.ok
    /\ last.res.pos = last.pos0 + 2
    /\ AsStr(StackPeek(last.res.stack)) = <<"a", "b">>

\* a signed index resolved against the length of the stack: <<>> when it cannot be
SliceIndex(i, len) ==
    IF 0 <= i /\ i <= len THEN <<i>>
    ELSE IF i < 0 /\ 0 <= len + i THEN <<len + i>>
    ELSE <<>>

\* C18: PeekSlice1 and PeekSlice2 leave the stack as it was for every start, end and
\* stack length: an index pair that cannot be resolved fails with SliceOutOfBound
\* carrying start and end, a resolved range with end <= start succeeds consuming
\* nothing, and any other resolved range is matched against the input.
C18_PeekSliceTotal ==
    (IsCall("PeekSlice1") \/ IsCall("PeekSlice2")) =>
        LET len == Len(last.stack0.elems)
            nd == Node[last.n]
            s == SliceIndex(nd.start, len)
            e == IF nd.end = <<>> THEN <<len>> ELSE SliceIndex(nd.end[1], len)
        IN /\ last.res.stack = last.stack0
           /\ last.res.err.kind \in {"none", "Attempts", "SliceOutOfBound"}
           /\ (s = <<>> \/ e = <<>>) =>
                 /\ ~last.res.ok
                 /\ last.res.err.kind = "SliceOutOfBound"
                 /\ last.res.err.start = nd.start
                 /\ last.res.err.end = nd.end
           /\ (s # <<>> /\ e # <<>>) =>
                 IF e[1] <= s[1]
                 THEN last.res.ok /\ last.res.pos = last.pos0
                 ELSE LET text == Flatten(Texts(SubSeq(last.stack0.elems, s[1] + 1, e[1])))
                      IN /\ last.res.ok <=> MatchString(last.pos0, text)
                         /\ last.res.ok => last.res.pos = last.pos0 + Len(text)

C18_Witness ==
    /\ IsCall("PeekSlice2")
    /\ Node[last.n].start = 0
    /\ Node[last.n].end = <<3>>
    /\ Len(last.stack0.elems) = 2
    /\ ~last.res.ok
    /\ last.res.err.kind = "SliceOutOfBound"
    /\ last.res.stack = last.stack0

\* the input from offset p on holds nothing but WHITESPACE and COMMENT characters
OnlyIgnored(p) == \A i \in (p + 1)..Len(input) : input[i] \in {" ", "\t"}

\* C19: parse of a rule of every kind accepts an input that the rule matches from
\* offset 0 up to a position after which only WHITESPACE and COMMENT text remains.
C19_ParseSkipsTrailingIgnored ==
    last.kind = "parse" =>
        LET r == Eval(last.n, 0, StackNew, FALSE, Node[last.n].rule)
        IN (r.ok /\ OnlyIgnored(r.pos)) => last.res.ok

RepNode(rule, k) == <<rule, "Rep[">> \o [i \in 1..k |-> "Str"] \o <<"]">>

\* the elements "a" of the input, the text between them left out
Elements == SelectSeq(input, LAMBDA c : c = "a")

\* C21: parse of a rule over Rep(Str a), pass-through or non-atomic, accepts every input
\* that starts with "a" and holds nothing but "a", WHITESPACE ' ' and COMMENT '\t', and
\* its node holds one element for each "a" of the input, whatever text lies between
\* them: "aaa", "a a a" and "a a\ta" give the same three elements.
C21_RepSkipsIgnoredBetween ==
    (/\ last.kind = "parse"
     /\ last.n \in {"RepFoo", "R"}
     /\ input # <<>>
     /\ input[1] = "a"
     /\ \A i \in 1..Len(input) : input[i] \in {"a", " ", "\t"}) =>
        /\ last.res.ok
        /\ last.res.pos = Len(input)
        /\ last.res.node = RepNode("RepFoo", Len(Elements))

C21_Witness ==
    /\ last.kind = "parse"
    /\ last.n = "R"
    /\ input = <<"a", " ", "a", "\t", "a">>
    /\ last.res.ok
    /\ last.res.node = RepNode("RepFoo", 3)

\* the second child of the sequence of the last call, run where the sequence runs it
\* after its first child has returned r1: after IGNORED in a Seq, at once in a tuple
SecondChild(r1) ==
    IF Node[last.n].op = "Seq"
    THEN Eval(Node[last.n].b,
              Eval(Node[last.n].ign, r1.pos, r1.stack, FALSE, "top").pos,
              r1.stack, FALSE, "top")
    ELSE Eval(Node[last.n].b, r1.pos, r1.stack, FALSE, "top")

\* a failed sequence, whose first child returned r1, reports the failure of the child
\* that failed and leaves the stack as that child left it
FailsAs(r1) ==
    IF ~r1.ok
    THEN /\ ~last.res.ok
         /\ last.res.err = r1.err
         /\ last.res.stack = r1.stack
         /\ last.res.seen = r1.seen \cup {last.n}
    ELSE ~last.res.ok =>
            /\ ~SecondChild(r1).ok
            /\ last.res.err = SecondChild(r1).err
            /\ last.res.stack = SecondChild(r1).stack

\* C22: a Seq and a tuple fail as soon as a child fails, with that child's failure (the
\* second child is not run when the first fails), and leave the stack as the children
\* left it: when Seq(Push(Str a), Str b) or (Push(Str a), Str b) fails after its first
\* child matched, the span "a" is on top of the stack; under Restorable the entries
\* below the pushed one are back as they were.
C22_SeqFailureKeepsStack ==
    /\ (IsCall("Seq") \/ IsCall("Tuple")) => FailsAs(Inner)
    /\ (/\ last.kind = "call"
        /\ last.n \in {"Seq(Push(a),b)", "(Push(a),b)"}
        /\ Inner.ok
        /\ ~last.res.ok) =>
            /\ Texts(last.res.stack.elems) = Texts(last.stack0.elems) \o << <<"a">> >>
            /\ last.res.stack.snapshots = last.stack0.snapshots
    /\ (/\ last.kind = "call"
        /\ last.n = "Restorable(Seq(Push(a),b))"
        /\ ~last.res.ok) => last.res.stack = last.stack0

C22_Witness ==
    /\ last.kind = "call"
    /\ last.n = "Seq(Push(a),b)"
    /\ input = <<"a", "x">>
    /\ last.pos0 = 0
    /\ last.stack0.elems = <<>>
    /\ ~last.res.ok
    /\ Texts(last.res.stack.elems) = << <<"a">> >>

\* the last call returned what the second alternative returns as r2
IsSecond(r2) ==
    /\ last.res.ok <=> r2.ok
    /\ last.res.stack = r2.stack
    /\ r2.ok =>
          /\ last.res.pos = r2.pos
          /\ last.res.node = <<"Second">> \o r2.node

\* C23: when the first alternative of a Choice fails, the Choice returns what its second
\* alternative returns when run from the position the Choice was entered at, on the
\* stack the failed first alternative left.  Where the input has an "a" that no "b"
\* follows, Choice(Seq(Push(Str a), Str b), Push(Str a)) succeeds from an empty stack one
\* character on, with two entries "a" on the stack: the one the failed Seq pushed and
\* the one the second alternative pushed.
C23_ChoiceSecondFromEntry ==
    /\ (IsCall("Choice") /\ ~Inner.ok) =>
           IsSecond(Eval(Node[last.n].b, last.pos0, Inner.stack, FALSE, "top"))
    /\ (/\ last.kind = "call"
        /\ last.n = "Choice(Seq(Push(a),b),Push(a))"
        /\ last.stack0.elems = <<>>
        /\ last.pos0 < Len(input)
        /\ input[last.pos0 + 1] = "a"
        /\ ~Inner.ok) =>
            /\ last.res.ok
            /\ last.res.pos = last.pos0 + 1
            /\ Texts(last.res.stack.elems) = << <<"a">>, <<"a">> >>

C23_Witness ==
    /\ last.kind = "call"
    /\ last.n = "Choice(Seq(Push(a),b),Push(a))"
    /\ input = <<"a", "x">>
    /\ last.pos0 = 0
    /\ last.stack0.elems = <<>>
    /\ last.res.ok
    /\ last.res.pos = 1
    /\ Len(last.res.stack.elems) = 2

\* the number of characters "x" the input has in a row from offset p on
RunOfX(p) ==
    CHOOSE k \in 0..(Len(input) - p) :
        /\ \A i \in 1..k : input[p + i] = "x"
        /\ p + k = Len(input) \/ input[p + k + 1] # "x"

\* the character of the input at offset p is c
NextIs(p, c) == p < Len(input) /\ input[p + 1] = c

\* the last call failed with RepeatTooManyTimes
TooManyTimes == ~last.res.ok /\ last.res.err.kind = "RepeatTooManyTimes"

\* C24: Rep(Str x) on an input with n characters "x" in a row succeeds with n elements,
\* n characters on, for every n from 0 to 1024, and fails with RepeatTooManyTimes for
\* every n above 1024.  A Rep whose element can match without consuming fails the same
\* way exactly where its element matches without end: Rep(Opt(Str x)) everywhere,
\* Rep(Positive(Str x)) in front of an "x", Rep(Choice(Str x, Positive(Str y))) where a
\* "y" follows the run or the run is longer than 1024; elsewhere they succeed with the
\* elements matched.
C24_RepCapIs1024 ==
    /\ (last.kind = "call" /\ last.n = "Rep(x)") =>
           IF RunOfX(last.pos0) <= 1024
           THEN /\ last.res.ok
                /\ last.res.pos = last.pos0 + RunOfX(last.pos0)
                /\ last.res.node =
                      <<"Rep[">> \o [i \in 1..RunOfX(last.pos0) |-> "Str"] \o <<"]">>
           ELSE TooManyTimes
    /\ (last.kind = "call" /\ last.n = "Rep(Opt(x))") => TooManyTimes
    /\ (last.kind = "call" /\ last.n = "Rep(Positive(x))") =>
           IF RunOfX(last.pos0) > 0
           THEN TooManyTimes
           ELSE /\ last.res.ok
                /\ last.res.pos = last.pos0
                /\ last.res.node = <<"Rep[", "]">>
    /\ (last.kind = "call" /\ last.n = "Rep(Choice(x,Positive(y)))") =>
           IF RunOfX(last.pos0) > 1024 \/ NextIs(last.pos0 + RunOfX(last.pos0), "y")
           THEN TooManyTimes
           ELSE /\ last.res.ok
                /\ last.res.pos = last.pos0 + RunOfX(last.pos0)
                /\ Len(last.res.node) = 2 * RunOfX(last.pos0) + 2

C24_Witness ==
    /\ last.kind = "call"
    /\ last.n = "Rep(x)"
    /\ Len(input) = 1024
    /\ RunOfX(0) = 1024
    /\ last.res.ok
    /\ last.res.pos = 1024
    /\ Len(last.res.node) = 1026

\* the Ign types whose WHITESPACE or COMMENT can match without consuming
NonProgressing == {"Ign(COMMENT,Opt(' '))", "Ign(Positive(a),WHITESPACE)"}

\* the end of the longest run of WHITESPACE ' ' and COMMENT '\t' characters from p on
RECURSIVE SkipBlanks(_)
SkipBlanks(p) ==
    IF p < Len(input) /\ input[p + 1] \in {" ", "\t"} THEN SkipBlanks(p + 1) ELSE p

\* the same where WHITESPACE is the two characters "aa" with nothing between them
RECURSIVE SkipPairs(_)
SkipPairs(p) ==
    IF p + 1 < Len(input) /\ input[p + 1] = "a" /\ input[p + 2] = "a"
    THEN SkipPairs(p + 2)
    ELSE IF p < Len(input) /\ input[p + 1] = "\t" THEN SkipPairs(p + 1)
    ELSE p

RECURSIVE Body(_)
Body(n) ==
    IF Node[n].op \in {"AtomicRule", "NonAtomicRule", "Rule"} THEN Body(Node[n].a) ELSE n

\* the ATOMIC that matcher is run with when n is called with ATOMIC = atomic: the one of
\* the wrapper nearest to it that forces one, atomic when none does
RECURSIVE Ambient(_, _)
Ambient(n, atomic) ==
    CASE Node[n].op = "AtomicRule" -> Ambient(Node[n].a, TRUE)
      [] Node[n].op = "NonAtomicRule" -> Ambient(Node[n].a, FALSE)
      [] Node[n].op = "Rule" -> Ambient(Node[n].a, atomic)
      [] OTHER -> atomic

\* the last call matched as r does: as far, with the same stack
MatchesAs(r) ==
    /\ last.res.ok <=> r.ok
    /\ last.res.stack = r.stack
    /\ r.ok => last.res.pos = r.pos

\* C26: a call of a rule, made with ATOMIC = false as parse_partial makes it, matches
\* as the matcher under its wrappers does when run with the ATOMIC of the nearest
\* wrapper that forces one (true for AtomicRule, false for NonAtomicRule; Rule forces
\* none), and with false when no wrapper forces one.  Where "a", blanks and "b" follow
\* one another, Seq(Str a, Str b) fails under AtomicRule and under Rule under AtomicRule
\* and succeeds under NonAtomicRule under AtomicRule.
C26_NearestForcingWrapper ==
    /\ (last.kind \in {"call", "parse_partial"} /\ last.n \in Rules) =>
           MatchesAs(Eval(Body(last.n), last.pos0, last.stack0,
                          Ambient(last.n, FALSE), "top"))
    /\ (/\ last.kind = "call"
        /\ last.pos0 + 2 < Len(input)
        /\ input[last.pos0 + 1] = "a"
        /\ input[last.pos0 + 2] = " ") =>
            /\ last.n \in {"s2_atomic", "AtomicRule(s2)", "AtomicRule(Rule(s2))",
                            "Rule(s2_atomic)", "NonAtomicRule(s2_atomic)",
                            "NonAtomicRule(Rule(s2_atomic))"} => ~last.res.ok
            /\ last.n \in {"s2", "s2_non_atomic", "Rule(s2)", "Rule(s2_non_atomic)",
                            "AtomicRule(s2_non_atomic)",
                            "AtomicRule(Rule(s2_non_atomic))"} =>
                   (last.res.ok <=> NextIs(SkipBlanks(last.pos0 + 1), "b"))

C26_Witness ==
    /\ last.kind = "call"
    /\ last.n = "AtomicRule(Rule(s2_non_atomic))"
    /\ input = <<"a", " ", "b">>
    /\ last.res.ok
    /\ last.res.pos = 3
    /\ ~Eval("AtomicRule(Rule(s2))", 0, StackNew, FALSE, "top").ok

\* the input has WHITESPACE or COMMENT text at offset p
BlankAt(p) == p < Len(input) /\ input[p + 1] \in {" ", "\t"}

Snapshotting ==
    NodesOf("Positive") \cup NodesOf("Negative") \cup NodesOf("Restorable")
        \cup NodesOf("Option")

\* C28: every matcher returns with the markers that were pending when it was entered,
\* the same in number and in value, on success and on failure: none after a top-level
\* call, and the marker of the caller when a matcher that takes a snapshot is entered
\* with one pending.
C28_SnapshotsBalanced ==
    last.kind \in {"call", "parse", "parse_partial"} =>
        /\ last.stack0.snapshots = <<>>
        /\ last.res.stack.snapshots = <<>>
        /\ (last.kind = "call" /\ last.n \in Snapshotting) =>
               Eval(last.n, last.pos0, StackSnapshot(last.stack0), FALSE,
                    "top").stack.snapshots = StackSnapshot(last.stack0).snapshots

C28_Witness ==
    /\ last.kind = "call"
    /\ last.n = "Restorable(Option((Push(a),b)))"
    /\ Len(last.stack0.elems) = 1
    /\ last.res.ok
    /\ last.res.node = <<"None">>
    /\ last.res.stack.snapshots = <<>>
    /\ Eval(last.n, last.pos0, StackSnapshot(last.stack0), FALSE,
            "top").stack.snapshots = <<1>>

\* C29: every call of Ign returns, whatever its WHITESPACE and COMMENT are, also when
\* one of them can succeed without consuming input.
C29_IgnTerminates ==
    IsCall("Ign") => ~last.res.hang

\* C30: a Rep over a consuming element that stops at a failed attempt returns the end of
\* its last element: its entry position when it has no element, the position of the
\* element matched last otherwise (for Rep(Str a), just after an "a").
C30_RepEndsAtLastElement ==
    (IsCall("Rep") /\ last.n \in {"Rep(a)", "Rep(x)"} /\ last.res.ok) =>
        IF last.res.node = <<"Rep[", "]">>
        THEN last.res.pos = last.pos0
        ELSE input[last.res.pos] = Node[Node[last.n].a].s[1]

====
